---- MODULE Spec2Model ----
(***************************************************************************)
(* Personal Finance Tracker API (src/main.py, src/schemas.py).             *)
(*                                                                         *)
(* The store is three MongoDB collections (transaction, budget, profile),  *)
(* each a sequence of documents in natural (insertion) order.  Handlers    *)
(* run on behalf of concurrent clients; every store primitive (count,      *)
(* find, insert, update_one) is one atomic step, and a handler that calls  *)
(* several primitives is a sequence of steps that other clients may        *)
(* interleave with.                                                        *)
(*                                                                         *)
(* Money is counted in thousandths of the currency unit (42.5 is 42500),   *)
(* so that rounding to 2 decimals is a real operation.  A datetime is      *)
(* <<year, month, day, t>> with t the time of day (0 is midnight).  A      *)
(* month key "YYYY-MM" is the number YYYYMM its digits spell.              *)
(* Transaction title and notes are stored and returned but never read by   *)
(* any handler; the documents of the model leave them out.                 *)
(***************************************************************************)
EXTENDS Integers, Sequences, FiniteSets, TLC

(* ---------------------------------------------------------------- bounds *)

\* The transactions of a store a query is applied to, at most.
MaxTx == 2
\* The calls of store-changing handlers started in one behaviour.
MaxCalls == 2

(* ------------------------------------------------------------- schemas.py *)

CategoryLiteral == {"Food", "Bills", "Transport", "Shopping", "Savings", "Other"}

TypeLiteral == {"income", "expense"}

DEFAULT_CATEGORIES == <<"Food", "Bills", "Transport", "Shopping", "Savings", "Other">>

\* Profile(): every field at its default.
Profile ==
  [name |-> "You", currency |-> "$", dark_mode |-> FALSE,
   categories |-> DEFAULT_CATEGORIES, onboarded |-> FALSE]

\* Transaction(...): pydantic validation of amount (gt=0), type and category.
TransactionValid(amount, type, category) ==
  /\ amount > 0
  /\ type \in TypeLiteral
  /\ category \in CategoryLiteral

\* The sample items of bootstrap_sample_data, in order.
sample_items ==
  << [amount |-> 42500,   type |-> "expense", category |-> "Food"],
     [amount |-> 1800000, type |-> "income",  category |-> "Other"],
     [amount |-> 3200,    type |-> "expense", category |-> "Transport"],
     [amount |-> 65000,   type |-> "expense", category |-> "Bills"],
     [amount |-> 4100,    type |-> "expense", category |-> "Food"] >>

\* The amount of the budget bootstrap_sample_data creates (1200).
SampleBudget == 1200000

(* ------------------------------------------------------------------ time *)

\* The instants datetime.utcnow() returns, in order: the clock crosses a
\* year end.
Instants == << <<2024, 12, 31, 1>>, <<2025, 1, 1, 1>> >>

\* datetime comparison.
DateLt(a, b) ==
  \/ a[1] < b[1]
  \/ a[1] = b[1] /\ a[2] < b[2]
  \/ a[1] = b[1] /\ a[2] = b[2] /\ a[3] < b[3]
  \/ a[1] = b[1] /\ a[2] = b[2] /\ a[3] = b[3] /\ a[4] < b[4]

DateLe(a, b) == a = b \/ DateLt(a, b)

\* f"{now.year:04d}-{now.month:02d}"
MonthKey(d) == d[1] * 100 + d[2]

\* datetime.strptime(month + "-01", "%Y-%m-%d") succeeds.
MonthParses(month) == (month % 100) \in 1..12 /\ (month \div 100) \in 1..9999

\* datetime.strptime(month + "-01", "%Y-%m-%d")
MonthStart(month) == <<month \div 100, month % 100, 1, 0>>

\* MonthEnd with the year end forgotten: December is followed by January of
\* the same year.
MonthEndSameYear(start) == <<start[1], (start[2] % 12) + 1, 1, 0>>

\* The first instant of the month after the one `start` is in.
MonthEnd(start) ==
  IF start[2] = 12 THEN <<start[1] + 1, 1, 1, 0>>
                   ELSE <<start[1], start[2] + 1, 1, 0>>

\* datetime.isoformat(), as the number the digits YYYYMMDDt spell.
IsoFormat(d) == ((d[1] * 100 + d[2]) * 100 + d[3]) * 10 + d[4]

\* round(x, 2): to the nearest hundredth (10 thousandths), ties to even.
Round2(x) ==
  LET q == x \div 10
      r == x % 10
  IN  IF r < 5 THEN 10 * q
      ELSE IF r > 5 THEN 10 * (q + 1)
      ELSE IF q % 2 = 0 THEN 10 * q ELSE 10 * (q + 1)

(* ------------------------------------------------------ store primitives *)

\* An optional value: <<>> is None, <<v>> is v.
None == <<>>

Some(v) == <<v>>

IsNone(o) == o = <<>>

\* $set: the fields of upd replace or extend those of doc.
SetFields(doc, upd) ==
  [k \in DOMAIN doc \cup DOMAIN upd |-> IF k \in DOMAIN upd THEN upd[k] ELSE doc[k]]

\* create_document(collection, model): insert the model's fields.
create_document(coll, doc) == Append(coll, doc)

\* The indices of the budget documents that match {"month": month}.
BudgetMatching(coll, month) == {i \in 1..Len(coll) : coll[i].month = month}

\* db["budget"].count_documents({"month": month})
CountBudget(coll, month) == Cardinality(BudgetMatching(coll, month))

\* The document find_one and update_one pick for {"month": month}: the first
\* match in natural order; 0 when there is none.
FirstBudget(coll, month) ==
  LET m == BudgetMatching(coll, month)
  IN  IF m = {} THEN 0 ELSE CHOOSE i \in m : \A j \in m : i <= j

\* UpsertBudget with $inc in place of $set for the amount.
UpsertBudgetInc(coll, month, amount, ts) ==
  LET i == FirstBudget(coll, month)
  IN  IF i = 0 THEN Append(coll, [month |-> month, amount |-> amount, updated_at |-> ts])
      ELSE [coll EXCEPT ![i] = SetFields(@, [month |-> month, amount |-> @.amount + amount,
                                             updated_at |-> ts])]

\* db["budget"].update_one({"month": month}, {"$set": {month, amount,
\* updated_at}}, upsert=True)
UpsertBudget(coll, month, amount, ts) ==
  LET i   == FirstBudget(coll, month)
      upd == [month |-> month, amount |-> amount, updated_at |-> ts]
  IN  IF i = 0 THEN Append(coll, upd)
      ELSE [coll EXCEPT ![i] = SetFields(@, upd)]

\* UpsertProfile replacing the document instead of setting fields in it.
UpsertProfileReplace(coll, upd) ==
  IF Len(coll) = 0 THEN Append(coll, upd)
  ELSE [coll EXCEPT ![1] = upd]

\* db["profile"].update_one({}, {"$set": upd}, upsert=True): the first
\* document is the match; an empty collection gets a document of upd alone.
UpsertProfile(coll, upd) ==
  IF Len(coll) = 0 THEN Append(coll, upd)
  ELSE [coll EXCEPT ![1] = SetFields(@, upd)]

(* ----------------------------------------------------------------- state *)

Procs == {1, 2}

VARIABLES
  transaction,  \* the transaction collection, in natural order
  budget,       \* the budget collection
  profile,      \* the profile collection
  clock,        \* index in Instants of what datetime.utcnow() returns
  pc,           \* per client: where its handler stands
  call,         \* per client: the handler called, its payload and locals
  ret,          \* per client: what its last finished handler returned
  pre,          \* per client: the store when its call started
  alone,        \* per client: no other client has stepped since its call started
  ncalls,       \* calls started so far
  bw            \* per month key: the last two budget writes for it

vars == <<transaction, budget, profile, clock, pc, call, ret, pre, alone, ncalls, bw>>

store == [transaction |-> transaction, budget |-> budget, profile |-> profile]

now == Instants[clock]

\* The month keys a budget write can name.
MonthKeys == {202412, 202501, 202413}

Resting(p) == pc[p] \in {"idle", "done"}

NoCall == [op |-> "none"]

NoRet == [status |-> "none"]

EmptyStore == [transaction |-> <<>>, budget |-> <<>>, profile |-> <<>>]

Init ==
  /\ transaction = <<>>
  /\ budget = <<>>
  /\ profile = <<>>
  /\ clock = 1
  /\ pc = [p \in Procs |-> "idle"]
  /\ call = [p \in Procs |-> NoCall]
  /\ ret = [p \in Procs |-> NoRet]
  /\ pre = [p \in Procs |-> EmptyStore]
  /\ alone = [p \in Procs |-> FALSE]
  /\ ncalls = 0
  /\ bw = [m \in MonthKeys |-> <<>>]

\* A step of client p.  What a finished handler returned stays on view until
\* another client steps: then the response is gone and the client is idle.
PcTo(p, label) ==
  pc' = [q \in Procs |-> IF q = p THEN label ELSE IF Resting(q) THEN "idle" ELSE pc[q]]

CallTo(p, c) ==
  call' = [q \in Procs |-> IF q = p THEN c ELSE IF Resting(q) THEN NoCall ELSE call[q]]

RetTo(p, r) ==
  ret' = [q \in Procs |-> IF q = p THEN r ELSE IF Resting(q) THEN NoRet ELSE ret[q]]

\* Bookkeeping of a handler's first step, and of a later one.
Begin(p) ==
  /\ Resting(p)
  /\ ncalls < MaxCalls
  /\ ncalls' = ncalls + 1
  /\ pre' = [q \in Procs |-> IF q = p THEN store ELSE EmptyStore]
  /\ alone' = [q \in Procs |-> q = p]

Continue(p) ==
  /\ ncalls' = ncalls
  /\ pre' = [q \in Procs |-> IF q = p /\ alone[p] THEN pre[p] ELSE EmptyStore]
  /\ alone' = [q \in Procs |-> q = p /\ alone[p]]

Ok == [status |-> "ok"]

Failed == [status |-> "error"]

\* The record of a budget write: the handler, the amount and the number of
\* documents the month has after it.
Written(log, coll, month, op, amount) ==
  LET ev == [op |-> op, amount |-> amount, n |-> CountBudget(coll, month)]
  IN  [log EXCEPT ![month] = IF Len(@) < 2 THEN Append(@, ev) ELSE <<@[2], ev>>]

\* datetime.utcnow() moves on.
Tick ==
  /\ clock < Len(Instants)
  /\ clock' = clock + 1
  /\ UNCHANGED <<transaction, budget, profile, pc, call, ret, pre, alone, ncalls, bw>>

(* ------------------------------------------------------------- bootstrap *)

\* bootstrap_count_transactions returning at once when a transaction exists.
bootstrap_count_transactions_returns_early(p) ==
  /\ Begin(p)
  /\ CallTo(p, [op |-> "bootstrap", i |-> 1, month_key |-> MonthKey(now)])
  /\ IF Len(transaction) = 0
     THEN PcTo(p, "bs_insert_tx") /\ RetTo(p, NoRet)
     ELSE PcTo(p, "done") /\ RetTo(p, Ok)
  /\ UNCHANGED <<transaction, budget, profile, clock, bw>>

\* bootstrap_sample_data, line 55: count the transactions.
bootstrap_count_transactions(p) ==
  /\ Begin(p)
  /\ CallTo(p, [op |-> "bootstrap", i |-> 1, month_key |-> 0])
  /\ PcTo(p, IF Len(transaction) = 0 THEN "bs_insert_tx" ELSE "bs_count_budget")
  /\ RetTo(p, NoRet)
  /\ UNCHANGED <<transaction, budget, profile, clock, bw>>

\* lines 63-64: insert the next sample item, dated now.
bootstrap_insert_sample(p) ==
  /\ pc[p] = "bs_insert_tx"
  /\ Continue(p)
  /\ LET it == sample_items[call[p].i]
     IN  transaction' = create_document(transaction,
           [id |-> Len(transaction) + 1, amount |-> it.amount, type |-> it.type,
            category |-> it.category, date |-> now])
  /\ CallTo(p, [call[p] EXCEPT !.i = @ + 1])
  /\ PcTo(p, IF call[p].i = Len(sample_items) THEN "bs_count_budget" ELSE "bs_insert_tx")
  /\ RetTo(p, NoRet)
  /\ UNCHANGED <<budget, profile, clock, bw>>

\* lines 67-69: the month key of now, and the count of its budgets.
bootstrap_count_budget(p) ==
  /\ pc[p] = "bs_count_budget"
  /\ Continue(p)
  /\ CallTo(p, [call[p] EXCEPT !.month_key = MonthKey(now)])
  /\ PcTo(p, IF CountBudget(budget, MonthKey(now)) = 0
             THEN "bs_insert_budget" ELSE "bs_count_profile")
  /\ RetTo(p, NoRet)
  /\ UNCHANGED <<transaction, budget, profile, clock, bw>>

\* line 70: insert the sample budget.
bootstrap_insert_budget(p) ==
  /\ pc[p] = "bs_insert_budget"
  /\ Continue(p)
  /\ budget' = create_document(budget, [month |-> call[p].month_key, amount |-> SampleBudget])
  /\ bw' = Written(bw, budget', call[p].month_key, "bootstrap", SampleBudget)
  /\ CallTo(p, call[p])
  /\ PcTo(p, "bs_count_profile")
  /\ RetTo(p, NoRet)
  /\ UNCHANGED <<transaction, profile, clock>>

\* line 73: count the profiles; with one present the handler returns.
bootstrap_count_profile(p) ==
  /\ pc[p] = "bs_count_profile"
  /\ Continue(p)
  /\ CallTo(p, call[p])
  /\ IF Len(profile) = 0
     THEN PcTo(p, "bs_insert_profile") /\ RetTo(p, NoRet)
     ELSE PcTo(p, "done") /\ RetTo(p, Ok)
  /\ UNCHANGED <<transaction, budget, profile, clock, bw>>

\* lines 74-76: insert the default profile and return.
bootstrap_insert_profile(p) ==
  /\ pc[p] = "bs_insert_profile"
  /\ Continue(p)
  /\ profile' = create_document(profile, Profile)
  /\ CallTo(p, call[p])
  /\ PcTo(p, "done")
  /\ RetTo(p, Ok)
  /\ UNCHANGED <<transaction, budget, clock, bw>>

bootstrap_sample_data(p) ==
  \/ bootstrap_count_transactions(p)
  \/ bootstrap_insert_sample(p)
  \/ bootstrap_count_budget(p)
  \/ bootstrap_insert_budget(p)
  \/ bootstrap_count_profile(p)
  \/ bootstrap_insert_profile(p)

(* --------------------------------------------------- profile, onboarding *)

\* get_profile, lines 100-104: the response built from the document found;
\* empty or absent categories are replaced by the defaults.  (Documents carry
\* no _id here, so the response has no id.)
ProfileResponse(prof) ==
  IF "categories" \in DOMAIN prof /\ prof.categories # <<>>
  THEN prof
  ELSE SetFields(prof, [categories |-> DEFAULT_CATEGORIES])

\* get_profile, lines 95-96: find_one; a document found is returned.
get_profile_find_one(p) ==
  /\ Begin(p)
  /\ CallTo(p, [op |-> "get_profile"])
  /\ IF Len(profile) = 0
     THEN PcTo(p, "gp_insert") /\ RetTo(p, NoRet)
     ELSE PcTo(p, "done") /\ RetTo(p, [status |-> "ok", body |-> ProfileResponse(profile[1])])
  /\ UNCHANGED <<transaction, budget, profile, clock, bw>>

\* line 98: create the default profile.
get_profile_create(p) ==
  /\ pc[p] = "gp_insert"
  /\ Continue(p)
  /\ profile' = create_document(profile, Profile)
  /\ CallTo(p, call[p])
  /\ PcTo(p, "gp_find_again")
  /\ RetTo(p, NoRet)
  /\ UNCHANGED <<transaction, budget, clock, bw>>

\* lines 99-104: find_one again and return.
get_profile_find_again(p) ==
  /\ pc[p] = "gp_find_again"
  /\ Continue(p)
  /\ CallTo(p, call[p])
  /\ PcTo(p, "done")
  /\ RetTo(p, [status |-> "ok", body |-> ProfileResponse(profile[1])])
  /\ UNCHANGED <<transaction, budget, profile, clock, bw>>

get_profile(p) ==
  \/ get_profile_find_one(p)
  \/ get_profile_create(p)
  \/ get_profile_find_again(p)

ProfileFields == {"name", "currency", "dark_mode", "categories", "onboarded"}

\* payload.model_dump(exclude_none=True): the fields that are not None.
ExcludeNone(payload) ==
  [k \in {f \in DOMAIN payload : ~IsNone(payload[f])} |-> payload[k][1]]

\* update_profile: the whole handler (one store primitive at most).
update_profile(p, payload) ==
  /\ Begin(p)
  /\ CallTo(p, [op |-> "update_profile", payload |-> payload])
  /\ PcTo(p, "done")
  /\ LET update == ExcludeNone(payload)
     IN  IF DOMAIN update = {}
         THEN /\ RetTo(p, [status |-> "noop"])
              /\ profile' = profile
         ELSE /\ RetTo(p, Ok)
              /\ profile' = UpsertProfile(profile, update)
  /\ UNCHANGED <<transaction, budget, clock, bw>>

\* complete_onboarding, lines 121-126: the profile update.
OnboardingUpdate(payload) ==
  IF ~IsNone(payload.categories) /\ payload.categories[1] # <<>>
  THEN [currency |-> payload.currency, onboarded |-> TRUE,
        categories |-> payload.categories[1]]
  ELSE [currency |-> payload.currency, onboarded |-> TRUE]

\* line 127: the first write, the profile upsert.
complete_onboarding_profile(p, payload) ==
  /\ Begin(p)
  /\ CallTo(p, [op |-> "onboarding", payload |-> payload,
                wrote |-> <<"profile">>, month_key |-> 0])
  /\ profile' = UpsertProfile(profile, OnboardingUpdate(payload))
  /\ PcTo(p, "ob_budget")
  /\ RetTo(p, NoRet)
  /\ UNCHANGED <<transaction, budget, clock, bw>>

\* line 127 raising (the store fails): the handler ends, nothing written.
complete_onboarding_profile_fails(p, payload) ==
  /\ Begin(p)
  /\ CallTo(p, [op |-> "onboarding", payload |-> payload,
                wrote |-> <<>>, month_key |-> 0])
  /\ PcTo(p, "done")
  /\ RetTo(p, Failed)
  /\ UNCHANGED <<transaction, budget, profile, clock, bw>>

\* lines 129-136: the second write, the budget upsert of the current month.
complete_onboarding_budget(p) ==
  /\ pc[p] = "ob_budget"
  /\ Continue(p)
  /\ budget' = UpsertBudget(budget, MonthKey(now), call[p].payload.target, now)
  /\ bw' = Written(bw, budget', MonthKey(now), "onboarding", call[p].payload.target)
  /\ CallTo(p, [call[p] EXCEPT !.wrote = Append(@, "budget"), !.month_key = MonthKey(now)])
  /\ PcTo(p, "done")
  /\ RetTo(p, Ok)
  /\ UNCHANGED <<transaction, profile, clock>>

\* complete_onboarding_budget_fails undoing the profile write.
complete_onboarding_budget_fails_rolls_back(p) ==
  /\ pc[p] = "ob_budget"
  /\ Continue(p)
  /\ profile' = pre[p].profile
  /\ CallTo(p, [call[p] EXCEPT !.month_key = MonthKey(now)])
  /\ PcTo(p, "done")
  /\ RetTo(p, Failed)
  /\ UNCHANGED <<transaction, budget, clock, bw>>

\* line 131 raising: the handler ends with the profile written (no rollback).
complete_onboarding_budget_fails(p) ==
  /\ pc[p] = "ob_budget"
  /\ Continue(p)
  /\ CallTo(p, [call[p] EXCEPT !.month_key = MonthKey(now)])
  /\ PcTo(p, "done")
  /\ RetTo(p, Failed)
  /\ UNCHANGED <<transaction, budget, profile, clock, bw>>

(* ------------------------------------------------- budget, transactions *)

\* set_budget: the whole handler; the month defaults to the current one.
set_budget(p, payload) ==
  /\ Begin(p)
  /\ LET month == IF IsNone(payload.month) THEN MonthKey(now) ELSE payload.month[1]
     IN  /\ CallTo(p, [op |-> "set_budget", payload |-> payload, month_key |-> month])
         /\ budget' = UpsertBudget(budget, month, payload.amount, now)
         /\ bw' = Written(bw, budget', month, "set_budget", payload.amount)
  /\ PcTo(p, "done")
  /\ RetTo(p, Ok)
  /\ UNCHANGED <<transaction, profile, clock>>

\* add_transaction: the whole handler; a payload the Transaction model
\* refuses raises before create_document.
add_transaction(p, payload) ==
  /\ Begin(p)
  /\ CallTo(p, [op |-> "add_transaction", payload |-> payload])
  /\ PcTo(p, "done")
  /\ IF TransactionValid(payload.amount, payload.type, payload.category)
     THEN /\ transaction' = create_document(transaction,
               [id |-> Len(transaction) + 1, amount |-> payload.amount,
                type |-> payload.type, category |-> payload.category,
                date |-> IF IsNone(payload.date) THEN now ELSE payload.date[1]])
          /\ RetTo(p, [status |-> "ok", id |-> Len(transaction) + 1])
     ELSE /\ transaction' = transaction
          /\ RetTo(p, Failed)
  /\ UNCHANGED <<budget, profile, clock, bw>>

(* ------------------------------------------------------------- queries *)

\* sum(t.get("amount", 0) for t in docs if t.get("type") == type)
RECURSIVE SumAmount(_, _)
SumAmount(docs, type) ==
  IF docs = <<>> THEN 0
  ELSE (IF Head(docs).type = type THEN Head(docs).amount ELSE 0)
       + SumAmount(Tail(docs), type)

\* The subsequence of coll at the indices in keep, in natural order.
RECURSIVE Select(_, _)
Select(coll, keep) ==
  IF coll = <<>> THEN <<>>
  ELSE LET rest == Select(SubSeq(coll, 1, Len(coll) - 1), keep)
       IN  IF Len(coll) \in keep THEN Append(rest, coll[Len(coll)]) ELSE rest

\* find({"date": {"$gte": start, "$lt": end}})
FindByDate(coll, start, end) ==
  Select(coll, {i \in 1..Len(coll) : DateLe(start, coll[i].date) /\ DateLt(coll[i].date, end)})

\* sort("date", -1): the orders the store may return docs in; documents of
\* equal date come in any order.
SortedByDateDesc(docs) ==
  LET n == Len(docs)
  IN  { [k \in 1..n |-> docs[f[k]]] :
          f \in { g \in [1..n -> 1..n] :
                    /\ \A a, b \in 1..n : a # b => g[a] # g[b]
                    /\ \A a \in 1..n : a < n => DateLe(docs[g[a + 1]].date, docs[g[a]].date) } }

\* limit(n) of a cursor: 0 means no limit.
Limit(docs, n) ==
  IF n = 0 \/ n >= Len(docs) THEN docs ELSE SubSeq(docs, 1, n)

\* serialize(doc): the id as a string, the date in ISO format.
serialize(doc) ==
  [id |-> doc.id, amount |-> doc.amount, type |-> doc.type,
   category |-> doc.category, date |-> IsoFormat(doc.date)]

serialize_all(docs) == [k \in 1..Len(docs) |-> serialize(docs[k])]

\* a / b of two floats.
Divide(a, b) ==
  IF b = 0 THEN [num |-> 0, den |-> 0, err |-> "ZeroDivisionError"]
  ELSE [num |-> a, den |-> b, err |-> ""]

\* get_summary, line 169.
Progress(month_spend, budget_amount) ==
  IF budget_amount # 0 THEN Divide(month_spend, budget_amount)
  ELSE [num |-> 0, den |-> 1, err |-> ""]

\* get_summary, lines 167-168: the amount of the month's budget, 0 without one.
BudgetAmount(coll, month) ==
  LET i == FirstBudget(coll, month)
  IN  IF i = 0 THEN 0 ELSE coll[i].amount

\* get_summary, lines 157-165: the expenses dated in the month.
MonthSpend(coll, month) ==
  LET start == MonthStart(month)
  IN  SumAmount(FindByDate(coll, start, MonthEnd(start)), "expense")

\* get_summary, lines 171-172.
Currency(coll) ==
  IF Len(coll) > 0 /\ "currency" \in DOMAIN coll[1] THEN coll[1].currency ELSE "$"

\* get_summary: the whole handler.  It only reads; its reads are taken
\* together, as of one store state.
get_summary(p, monthArg) ==
  /\ Resting(p)
  /\ LET month == IF IsNone(monthArg) THEN MonthKey(now) ELSE monthArg[1]
     IN  /\ CallTo(p, [op |-> "get_summary", month |-> monthArg, month_key |-> month])
         /\ IF ~MonthParses(month)
            THEN RetTo(p, [status |-> "error", error |-> "ValueError"])
            ELSE LET income == SumAmount(transaction, "income")
                     expense == SumAmount(transaction, "expense")
                     month_spend == MonthSpend(transaction, month)
                     budget_amount == BudgetAmount(budget, month)
                     progress == Progress(month_spend, budget_amount)
                 IN  \E sorted \in SortedByDateDesc(transaction) :
                       RetTo(p, IF progress.err # ""
                                THEN [status |-> "error", error |-> progress.err]
                                ELSE [status |-> "ok",
                                      balance |-> Round2(income - expense),
                                      income |-> Round2(income),
                                      expense |-> Round2(expense),
                                      month |-> month,
                                      month_spend |-> Round2(month_spend),
                                      budget |-> budget_amount,
                                      progress |-> progress,
                                      currency |-> Currency(profile),
                                      recent |-> serialize_all(Limit(sorted, 10))])
  /\ PcTo(p, "done")
  /\ UNCHANGED <<transaction, budget, profile, clock, pre, alone, ncalls, bw>>

\* `if x:` of an optional string parameter: given and not empty.
Given(o) == ~IsNone(o) /\ o[1] # ""

\* The same of a date string, <<y, m, d>> or the empty <<>>.
GivenDate(o) == ~IsNone(o) /\ o[1] # <<>>

\* datetime.strptime(s, "%Y-%m-%d") of the date string <<y, m, d>>.
ParseDate(s) == <<s[1], s[2], s[3], 0>>

\* list_transactions, lines 230-248: whether doc satisfies the query built
\* from the parameters q.
QueryMatches(doc, q) ==
  /\ GivenDate(q.start_date) => DateLe(ParseDate(q.start_date[1]), doc.date)
  /\ GivenDate(q.end_date) => DateLt(doc.date, ParseDate(q.end_date[1]))
  /\ Given(q.category) => doc.category = q.category[1]
  /\ Given(q.type) => doc.type = q.type[1]
  /\ ~IsNone(q.min_amount) => doc.amount >= q.min_amount[1]
  /\ ~IsNone(q.max_amount) => doc.amount <= q.max_amount[1]

\* find(query)
FindByQuery(coll, q) ==
  Select(coll, {i \in 1..Len(coll) : QueryMatches(coll[i], q)})

\* list_transactions: the whole handler.
list_transactions(p, q) ==
  /\ Resting(p)
  /\ CallTo(p, [op |-> "list_transactions", q |-> q])
  /\ \E sorted \in SortedByDateDesc(FindByQuery(transaction, q)) :
       RetTo(p, [status |-> "ok", body |-> serialize_all(Limit(sorted, q.limit))])
  /\ PcTo(p, "done")
  /\ UNCHANGED <<transaction, budget, profile, clock, pre, alone, ncalls, bw>>

\* categories, lines 282-283: the profile's categories, or the defaults.
ActiveCategories(coll) ==
  IF Len(coll) > 0 /\ "categories" \in DOMAIN coll[1] /\ coll[1].categories # <<>>
  THEN coll[1].categories ELSE DEFAULT_CATEGORIES

\* categories: the whole handler.
categories(p) ==
  /\ Resting(p)
  /\ CallTo(p, [op |-> "categories"])
  /\ RetTo(p, [status |-> "ok", body |-> ActiveCategories(profile)])
  /\ PcTo(p, "done")
  /\ UNCHANGED <<transaction, budget, profile, clock, pre, alone, ncalls, bw>>

(* ---------------------------------------------------------------- inputs *)

ProfilePayloads ==
  [name : {None, Some("Ann")}, currency : {None}, dark_mode : {None, Some(TRUE)},
   categories : {None, Some(<<>>), Some(<<"Rent">>)}, onboarded : {None}]

OnboardingPayloads ==
  [currency : {"EUR"}, target : {900000},
   categories : {None, Some(<<>>), Some(<<"Food", "Rent">>)}]

BudgetPayloads == [month : {None, Some(202501)}, amount : {0, 500000, 750000}]

TxPayloads ==
  { [amount |-> 15004, type |-> "expense", category |-> "Food", date |-> None],
    [amount |-> 15004, type |-> "expense", category |-> "Rent", date |-> None],
    [amount |-> 0,     type |-> "income",  category |-> "Food", date |-> None] }

(* --------------------------------------------------------- specification *)

Next ==
  \/ Tick
  \/ \E p \in Procs :
       \/ bootstrap_sample_data(p)
       \/ get_profile(p)
       \/ \E payload \in ProfilePayloads : update_profile(p, payload)
       \/ \E payload \in OnboardingPayloads :
            complete_onboarding_profile(p, payload) \/ complete_onboarding_profile_fails(p, payload)
       \/ complete_onboarding_budget(p)
       \/ complete_onboarding_budget_fails(p)
       \/ \E payload \in BudgetPayloads : set_budget(p, payload)
       \/ \E payload \in TxPayloads : add_transaction(p, payload)

Spec == Init /\ [][Next]_vars

(* ------------------------------------------- specifications of the queries *)

\* The stores the queries are applied to: transactions add_transaction has
\* accepted (ids in insertion order), budgets set_budget has written.
Rest ==
  /\ pc = [p \in Procs |-> "idle"]
  /\ call = [p \in Procs |-> NoCall]
  /\ ret = [p \in Procs |-> NoRet]
  /\ pre = [p \in Procs |-> EmptyStore]
  /\ alone = [p \in Procs |-> FALSE]
  /\ ncalls = 0
  /\ bw = [m \in MonthKeys |-> <<>>]

Stored(n, f) ==
  [i \in 1..n |-> [id |-> i, amount |-> f[i].amount, type |-> f[i].type,
                   category |-> f[i].category, date |-> f[i].date]]

SummaryTx ==
  [amount : {1004, 2015}, type : {"income", "expense"}, category : {"Food"},
   date : {<<2024, 11, 30, 1>>, <<2024, 12, 1, 0>>, <<2024, 12, 31, 1>>, <<2025, 1, 1, 0>>}]

BudgetDoc(month, amount) ==
  [month |-> month, amount |-> amount, updated_at |-> Instants[1]]

SummaryBudgets ==
  { <<>>,
    <<BudgetDoc(202412, 0)>>,
    <<BudgetDoc(202412, 600000)>>,
    <<BudgetDoc(202501, 300000), BudgetDoc(202412, 2000)>>,
    <<[month |-> 202501, amount |-> SampleBudget]>> }

SummaryProfiles == {<<>>, <<[currency |-> "EUR", onboarded |-> TRUE]>>, <<[name |-> "Ann"]>>}

SummaryMonths == {None, Some(202412), Some(202501), Some(202413)}

SummaryInit ==
  /\ \E n \in 0..MaxTx : \E f \in [1..n -> SummaryTx] : transaction = Stored(n, f)
  /\ budget \in SummaryBudgets
  /\ profile \in SummaryProfiles
  /\ clock \in 1..Len(Instants)
  /\ Rest

\* One query per behaviour: a query changes nothing a later one reads.
SummaryNext ==
  \/ pc[1] = "idle" /\ \E m \in SummaryMonths : get_summary(1, m)
  \/ pc[1] = "idle" /\ categories(1)

SummarySpec == SummaryInit /\ [][SummaryNext]_vars

ListTx ==
  [amount : {3200, 42500}, type : {"income", "expense"}, category : {"Food", "Bills"},
   date : {<<2024, 12, 31, 1>>, <<2025, 1, 1, 0>>}]

Queries ==
  [start_date : {None, Some(<<2025, 1, 1>>)},
   end_date : {None, Some(<<2025, 1, 1>>)},
   category : {None, Some("Food")},
   type : {None, Some("expense")},
   min_amount : {None, Some(0), Some(3200)},
   max_amount : {None, Some(3200)},
   limit : {0, 1, 2, 100}]

ListInit ==
  /\ \E n \in 0..MaxTx : \E f \in [1..n -> ListTx] : transaction = Stored(n, f)
  /\ budget = <<>>
  /\ profile = <<>>
  /\ clock = 1
  /\ Rest

ListNext == pc[1] = "idle" /\ \E q \in Queries : list_transactions(1, q)

ListSpec == ListInit /\ [][ListNext]_vars

(* ---------------------------------------------------------------- claims *)

Range(seq) == {seq[k] : k \in 1..Len(seq)}

Max(a, b) == IF a >= b THEN a ELSE b

Min(a, b) == IF a <= b THEN a ELSE b

\* Client p has just finished a call of handler op, and no other client has
\* stepped since the call started.
DoneAlone(p, op) == pc[p] = "done" /\ call[p].op = op /\ alone[p]

\* The first profile document of a collection, the empty document without one.
FirstProfile(coll) == IF Len(coll) = 0 THEN <<>> ELSE coll[1]

\* C1: in every reachable state every month key has at most one Budget
\* document, whatever the interleaving of set_budget, complete_onboarding and
\* bootstrap.
C1_AtMostOneBudgetPerMonth ==
  \A m \in MonthKeys : CountBudget(budget, m) <= 1

\* C2: set_budget with an amount that is not strictly positive is rejected
\* with an error and leaves the budget collection unchanged; no Budget written
\* by set_budget has amount <= 0.
C2_NonPositiveBudgetRejected ==
  /\ \A p \in Procs :
       (pc[p] = "done" /\ call[p].op = "set_budget" /\ call[p].payload.amount <= 0)
         => /\ ret[p].status = "error"
            /\ alone[p] => budget = pre[p].budget
  /\ \A m \in MonthKeys : \A k \in 1..Len(bw[m]) :
       bw[m][k].op = "set_budget" => bw[m][k].amount > 0

\* C3: the profile collection holds at most one document in every reachable
\* state, whatever the interleaving of get_profile, update_profile,
\* complete_onboarding and bootstrap.
C3_ProfileSingleton == Len(profile) <= 1

\* C4: after set_budget for month M with a1 and then set_budget for M with a2,
\* with no other budget write for M in between, the budget get_summary reports
\* for M is a2, and the second call added no document for M.
C4_SecondSetBudgetOverwrites ==
  \A m \in MonthKeys :
    (Len(bw[m]) = 2 /\ bw[m][1].op = "set_budget" /\ bw[m][2].op = "set_budget")
      => /\ BudgetAmount(budget, m) = bw[m][2].amount
         /\ bw[m][2].n = bw[m][1].n
         /\ CountBudget(budget, m) = bw[m][1].n

\* C4's case: two set_budget calls in a row for one month, with different
\* positive amounts.
C4_Witness ==
  \E m \in MonthKeys :
    /\ Len(bw[m]) = 2
    /\ bw[m][1].op = "set_budget" /\ bw[m][2].op = "set_budget"
    /\ bw[m][1].amount > 0 /\ bw[m][2].amount > 0
    /\ bw[m][1].amount # bw[m][2].amount

\* The expenses of the calendar month a month key names.
SpendOfMonth(coll, m) ==
  SumAmount(Select(coll, {i \in 1..Len(coll) :
                            coll[i].date[1] = m \div 100 /\ coll[i].date[2] = m % 100}),
            "expense")

\* C5: get_summary(M) never fails with a division error; progress is 0 when M
\* has no Budget or one of amount 0, and month_spend / budget, unrounded, when
\* M has a Budget B > 0, month_spend being the expenses dated in M's calendar
\* month (December ends where January of the next year starts).
C5_SummaryProgress ==
  \A p \in Procs :
    (pc[p] = "done" /\ call[p].op = "get_summary")
      => LET m == call[p].month_key
             b == BudgetMatching(budget, m)
         IN  /\ ret[p].status = "error" => ret[p].error # "ZeroDivisionError"
             /\ (m % 100) \in 1..12 =>
                  /\ ret[p].status = "ok"
                  /\ (b = {} \/ \E i \in b : budget[i].amount = 0)
                       => ret[p].progress = [num |-> 0, den |-> 1, err |-> ""]
                  /\ \A i \in b : budget[i].amount > 0
                       => /\ ret[p].progress.num = SpendOfMonth(transaction, m)
                          /\ ret[p].progress.den = budget[i].amount
                          /\ ret[p].budget = budget[i].amount

\* C5's case: a summary of December with a budget, expenses in December whose
\* sum rounding would change, and a transaction on the first of January.
C5_Witness ==
  /\ pc[1] = "done" /\ call[1].op = "get_summary" /\ call[1].month_key = 202412
  /\ ret[1].status = "ok"
  /\ ret[1].progress.den > 0
  /\ ret[1].progress.num > 0
  /\ ret[1].progress.num # ret[1].month_spend
  /\ \E i \in 1..Len(transaction) :
       transaction[i].date[1] = 2025 /\ transaction[i].type = "expense"

\* What update_profile is to leave: the first profile document with exactly
\* the given fields set, the other documents and collections as they were.
ProfileMerged(p, given) ==
  LET old == FirstProfile(pre[p].profile)
      new == profile[1]
  IN  /\ Len(profile) = Max(1, Len(pre[p].profile))
      /\ \A k \in 2..Len(profile) : profile[k] = pre[p].profile[k]
      /\ DOMAIN new = DOMAIN old \cup DOMAIN given
      /\ \A k \in DOMAIN given : new[k] = given[k]
      /\ \A k \in DOMAIN old \ DOMAIN given : new[k] = old[k]

\* C6: update_profile sets exactly the fields its payload provides and leaves
\* every other profile field and the other collections unchanged; with no
\* field provided it returns "noop" and leaves the whole store unchanged.
C6_UpdateProfileFrame ==
  \A p \in Procs :
    DoneAlone(p, "update_profile")
      => LET payload == call[p].payload
             provided == {k \in ProfileFields : payload[k] # None}
         IN  IF provided = {}
             THEN ret[p].status = "noop" /\ store = pre[p]
             ELSE /\ ret[p].status = "ok"
                  /\ transaction = pre[p].transaction
                  /\ budget = pre[p].budget
                  /\ ProfileMerged(p, [k \in provided |-> payload[k][1]])

\* C6's case: a partial update of a profile that has other fields.
C6_Witness ==
  \E p \in Procs :
    /\ DoneAlone(p, "update_profile")
    /\ ret[p].status = "ok"
    /\ call[p].payload.categories = None
    /\ Len(pre[p].profile) >= 1
    /\ "categories" \in DOMAIN pre[p].profile[1]
    /\ profile # pre[p].profile

\* C8 as stated: with at least one transaction stored, a bootstrap call leaves
\* the store unchanged.
C8_BootstrapNoOpWhenTransactionsExist ==
  \A p \in Procs :
    (DoneAlone(p, "bootstrap") /\ Len(pre[p].transaction) >= 1) => store = pre[p]

\* The store holds what bootstrap seeds for month key m.
Seeded(st, m) ==
  Len(st.transaction) >= 1 /\ CountBudget(st.budget, m) >= 1 /\ Len(st.profile) >= 1

\* C8, amended: bootstrap seeds each collection on its own count: the five
\* sample transactions when there is no transaction, a Budget of 1200 for the
\* current month when that month has none, a default Profile when there is no
\* profile.  It is a no-op exactly on a store that holds all three, which is
\* the store it leaves, so a second bootstrap in the same month changes
\* nothing.
C8_BootstrapSeedsWhatIsMissing ==
  \A p \in Procs :
    DoneAlone(p, "bootstrap")
      => LET m == call[p].month_key
         IN  /\ ret[p].status = "ok"
             /\ IF Len(pre[p].transaction) >= 1
                THEN transaction = pre[p].transaction
                ELSE /\ Len(transaction) = Len(sample_items)
                     /\ \A k \in 1..Len(sample_items) :
                          /\ transaction[k].amount = sample_items[k].amount
                          /\ transaction[k].type = sample_items[k].type
                          /\ transaction[k].category = sample_items[k].category
                          /\ transaction[k].date \in Range(Instants)
             /\ IF CountBudget(pre[p].budget, m) >= 1
                THEN budget = pre[p].budget
                ELSE /\ Len(budget) = Len(pre[p].budget) + 1
                     /\ SubSeq(budget, 1, Len(pre[p].budget)) = pre[p].budget
                     /\ budget[Len(budget)].month = m
                     /\ budget[Len(budget)].amount = SampleBudget
             /\ IF Len(pre[p].profile) >= 1
                THEN profile = pre[p].profile
                ELSE /\ Len(profile) = 1
                     /\ \A k \in ProfileFields : profile[1][k] = Profile[k]
             /\ Seeded(store, m)
             /\ (store = pre[p]) <=> Seeded(pre[p], m)

\* C8's case: a bootstrap call on a store that holds transactions, among them
\* the second of two bootstrap calls in a row.
C8_Witness ==
  \E p \in Procs :
    /\ DoneAlone(p, "bootstrap")
    /\ Len(pre[p].transaction) = Len(sample_items)
    /\ store = pre[p]

\* C9: the category of every stored Transaction is one of the current
\* profile's categories.
C9_CategoriesInProfile ==
  \A i \in 1..Len(transaction) :
    transaction[i].category \in Range(ActiveCategories(profile))

\* What complete_onboarding's first write is to leave of the profile.
OnboardedProfile(p) ==
  LET payload == call[p].payload
      cats == IF payload.categories # None /\ payload.categories[1] # <<>>
              THEN [categories |-> payload.categories[1]] ELSE <<>>
  IN  ProfileMerged(p, SetFields([currency |-> payload.currency, onboarded |-> TRUE], cats))

\* C10: complete_onboarding writes the profile first (currency, onboarded,
\* categories when a non-empty list is given) and the current month's budget
\* second, with no rollback: between the two writes, and after a failed budget
\* write, the profile is written and the budget is as it was.
C10_OnboardingProfileThenBudget ==
  \A p \in Procs :
    /\ call[p].op = "onboarding"
         => /\ call[p].wrote \in {<<>>, <<"profile">>, <<"profile", "budget">>}
            /\ pc[p] = "ob_budget" => call[p].wrote = <<"profile">>
    /\ (call[p].op = "onboarding" /\ alone[p])
      => /\ transaction = pre[p].transaction
         /\ pc[p] = "ob_budget" => OnboardedProfile(p) /\ budget = pre[p].budget
         /\ (pc[p] = "done" /\ ret[p].status = "error")
              => IF call[p].wrote = <<>>
                 THEN store = pre[p]
                 ELSE OnboardedProfile(p) /\ budget = pre[p].budget
         /\ (pc[p] = "done" /\ ret[p].status = "ok")
              => /\ OnboardedProfile(p)
                 /\ BudgetAmount(budget, call[p].month_key) = call[p].payload.target
                 /\ CountBudget(budget, call[p].month_key)
                      = Max(1, CountBudget(pre[p].budget, call[p].month_key))
                 /\ \A m \in MonthKeys \ {call[p].month_key} :
                      BudgetMatching(budget, m) = BudgetMatching(pre[p].budget, m)

\* C10's case: the budget write failed after the profile write.
C10_Witness ==
  \E p \in Procs :
    /\ DoneAlone(p, "onboarding")
    /\ ret[p].status = "error"
    /\ call[p].wrote = <<"profile">>
    /\ profile # pre[p].profile
    /\ profile[1].onboarded

\* The transactions the filters of q let through, as C7 states them.
Filtered(q) ==
  {i \in 1..Len(transaction) :
     LET t == transaction[i]
     IN  /\ q.start_date # None => DateLe(<<q.start_date[1][1], q.start_date[1][2], q.start_date[1][3], 0>>, t.date)
         /\ q.end_date # None => DateLt(t.date, <<q.end_date[1][1], q.end_date[1][2], q.end_date[1][3], 0>>)
         /\ q.category # None => t.category = q.category[1]
         /\ q.type # None => t.type = q.type[1]
         /\ q.min_amount # None => q.min_amount[1] <= t.amount
         /\ q.max_amount # None => t.amount <= q.max_amount[1]}

\* C7: list_transactions returns exactly the transactions that satisfy all
\* given filters, sorted by date descending and cut to the first `limit`: no
\* more than `limit` elements, the most recent ones.
C7_ListFilteredSortedCut ==
  \A p \in Procs :
    (pc[p] = "done" /\ call[p].op = "list_transactions")
      => LET q == call[p].q
             body == ret[p].body
             ids == {body[k].id : k \in 1..Len(body)}
         IN  /\ ret[p].status = "ok"
             /\ ids \subseteq Filtered(q)
             /\ Cardinality(ids) = Len(body)
             /\ Len(body) = Min(q.limit, Cardinality(Filtered(q)))
             /\ \A k \in 1..Len(body) : k < Len(body) => body[k].date >= body[k + 1].date
             /\ \A i \in Filtered(q) \ ids : \A k \in 1..Len(body) :
                  IsoFormat(transaction[i].date) <= body[k].date

====
